---- MODULE Spec2Model ----
(***************************************************************************)
(* A model of the calibrated gaze tracker of                               *)
(* Assets/Scripts/Research/onnx_calibrated_demo.py:                        *)
(* ONNXCalibratedGazeTracker (process_frame, enable_filter,                *)
(* disable_filter, run_calibration, save_calibration, load_calibration)    *)
(* and the key handlers of main.  The classes imported from the            *)
(* `calibration` package (GazeCalibrator, PolynomialMapper, GazeFilter,    *)
(* create_gaze_filter) are modelled from their specification.              *)
(*                                                                         *)
(* Numbers are integers.  An optional pair (None or (a, b)) is the empty   *)
(* sequence or <<a, b>>.                                                   *)
(***************************************************************************)
EXTENDS Integers, Sequences, FiniteSets, TLC

VARIABLES
    tracker,     \* the fields of the ONNXCalibratedGazeTracker object
    calib_file,  \* the document stored at calib_path
    cal,         \* the GazeCalibrator of the running run_calibration call
    ret,         \* what the last operation returned (or that it raised)
    before,      \* mapper / is_calibrated when the last calibration or load began
    ref,         \* the current target's capture with the absent readings removed
    fresh,       \* per filter: no filter call since it was constructed or reset
    flt,         \* a GazeFilter driven on its own (filter specifications)
    grid,        \* a GazeCalibrator's target layout (grid specification)
    saved        \* the mapper whose save wrote calib_file, if one did

vars == <<tracker, calib_file, cal, ret, before, ref, fresh, flt, grid, saved>>

(***************************************************************************)
(* Bounds of the model.                                                    *)
(***************************************************************************)
\* samples_per_point (30 in run_calibration) scaled down to a small budget
SamplesPerPoint == 2
\* sample_delay (0.8 s in run_calibration) in clock ticks
SampleDelay == 2
\* the calibrator's poll-attempt ceiling per target
PollCeiling == 3
\* the longest a single poll can take, in clock ticks
MaxPollTicks == 2
\* how many outlier readings (blink, saccade) the gaze source produces in a session
MaxOutliers == 1

(***************************************************************************)
(* Program constants.                                                      *)
(***************************************************************************)
screen_width == 1920
screen_height == 1080
num_points == 9
\* margin = 0.15, in percent
MarginPct == 15
\* degree = 2
Degree == 2

\* the grid is GridSide x GridSide
GridSide == CHOOSE n \in 1..num_points : n * n = num_points

None == <<>>

Max(a, b) == IF a >= b THEN a ELSE b
Min(a, b) == IF a <= b THEN a ELSE b
Abs(a) == IF a >= 0 THEN a ELSE 0 - a

(***************************************************************************)
(* GazeFilter (calibration package).  A filter holds its response profile  *)
(* and the smoothed pair, None until the first sample.  Smoothing is       *)
(* exponential: the smoothed value moves a profile-dependent fraction of   *)
(* the way to the new sample.  A non-finite sample is one whose coordinate *)
(* is NaN.                                                                 *)
(***************************************************************************)
Presets == {"smooth", "balanced", "responsive", "child"}

NaN == 99999

IsFinite(v) == v # NaN

AlphaDen == 8

Alpha(preset) ==
    CASE preset = "smooth" -> 1
      [] preset = "balanced" -> 2
      [] preset = "child" -> 3
      [] preset = "responsive" -> 4

\* one exponential step from prev towards x; the step is rounded away from
\* zero, so it is never 0 while prev # x and never passes x
SmoothStepTruncates(prev, x, a) ==
    LET d == x - prev
        m == (Abs(d) * a) \div AlphaDen
    IN  IF d >= 0 THEN prev + m ELSE prev - m

SmoothStep(prev, x, a) ==
    LET d == x - prev
        m == (Abs(d) * a + AlphaDen - 1) \div AlphaDen
    IN  IF d >= 0 THEN prev + m ELSE prev - m

NoFilter == [preset |-> "None", value |-> None]

create_gaze_filter(preset) == [preset |-> preset, value |-> None]

GazeFilter_reset(f) == [f EXCEPT !.value = None]

\* filter(x, y): the filter after the call and the pair it returns
ZeroPriorFilter(f, x, y) ==
    LET prev == IF f.value = None THEN <<0, 0>> ELSE f.value
        out == <<SmoothStep(prev[1], x, Alpha(f.preset)),
                 SmoothStep(prev[2], y, Alpha(f.preset))>>
    IN  [self |-> [f EXCEPT !.value = out], out |-> out]

PropagateNaNFilter(f, x, y) ==
    IF f.value = None \/ ~IsFinite(x) \/ ~IsFinite(y)
    THEN [self |-> [f EXCEPT !.value = <<x, y>>], out |-> <<x, y>>]
    ELSE LET out == <<SmoothStep(f.value[1], x, Alpha(f.preset)),
                      SmoothStep(f.value[2], y, Alpha(f.preset))>>
         IN  [self |-> [f EXCEPT !.value = out], out |-> out]

GazeFilter_filter(f, x, y) ==
    IF ~IsFinite(x) \/ ~IsFinite(y)
    THEN [self |-> f, out |-> IF f.value = None THEN <<x, y>> ELSE f.value]
    ELSE IF f.value = None
    THEN [self |-> [f EXCEPT !.value = <<x, y>>], out |-> <<x, y>>]
    ELSE LET out == <<SmoothStep(f.value[1], x, Alpha(f.preset)),
                      SmoothStep(f.value[2], y, Alpha(f.preset))>>
         IN  [self |-> [f EXCEPT !.value = out], out |-> out]

(***************************************************************************)
(* PolynomialMapper (calibration package).  An unfit mapper has no         *)
(* coefficients; a fitted one holds one coefficient array per axis over    *)
(* the basis 1, pitch, yaw, pitch^2, pitch*yaw, yaw^2 (indices 0..5).      *)
(***************************************************************************)
NoMapper == [method |-> "None", degree |-> 0, coeffs_x |-> None, coeffs_y |-> None]

PolynomialMapper == [method |-> "polynomial", degree |-> Degree,
                     coeffs_x |-> None, coeffs_y |-> None]

IsFitted(m) == m.method = "polynomial" /\ DOMAIN m.coeffs_x = 0..5 /\ DOMAIN m.coeffs_y = 0..5

Basis(g) == [i \in 0..5 |->
    CASE i = 0 -> 1
      [] i = 1 -> g[1]
      [] i = 2 -> g[2]
      [] i = 3 -> g[1] * g[1]
      [] i = 4 -> g[1] * g[2]
      [] i = 5 -> g[2] * g[2]]

RECURSIVE Dot(_, _, _)
Dot(c, b, i) == IF i > 5 THEN 0 ELSE c[i] * b[i] + Dot(c, b, i + 1)

\* predict(gaze) of a fitted mapper
predict(m, g) == <<Dot(m.coeffs_x, Basis(g), 0), Dot(m.coeffs_y, Basis(g), 0)>>

Arr(s) == [i \in 0..(Len(s) - 1) |-> s[i + 1]]

\* the coefficient arrays a least-squares fit can produce, by example: a
\* mapper that stays on the screen and one that leaves it far on both sides
FitCoeffs == {
    [x |-> Arr(<<960, 0, 2, 0, 0, 0>>), y |-> Arr(<<540, 3, 0, 0, 0, 0>>)],
    [x |-> Arr(<<5000, 0, 1, 0, 0, 1>>), y |-> Arr(<<0 - 700, 2, 0, 0, 1, 0>>)] }

Fitted(c) == [method |-> "polynomial", degree |-> Degree, coeffs_x |-> c.x, coeffs_y |-> c.y]

(***************************************************************************)
(* The tracker object and the frames the camera delivers.  A frame is      *)
(* what cap.read, detect_faces and the ONNX session make of it: whether    *)
(* the read succeeded, the boxes of the detected faces and the gaze the    *)
(* session infers for the first face.                                      *)
(***************************************************************************)
FrameWidth == 640
FrameHeight == 480

Some(v) == <<v>>

NewTracker == [
    screen_width |-> screen_width, screen_height |-> screen_height,
    mapper |-> NoMapper, is_calibrated |-> FALSE,
    gaze_filter |-> NoFilter, screen_filter |-> NoFilter, filter_enabled |-> TRUE,
    current_pitch |-> None, current_yaw |-> None, current_bbox |-> None]

\* enable_filter(preset)
EnableKeepsFilters(t, preset) ==
    [t EXCEPT !.gaze_filter = IF @ = NoFilter THEN create_gaze_filter(preset)
                              ELSE [@ EXCEPT !.preset = preset],
              !.screen_filter = IF @ = NoFilter THEN create_gaze_filter(preset)
                                ELSE [@ EXCEPT !.preset = preset],
              !.filter_enabled = TRUE]

enable_filter(t, preset) ==
    [t EXCEPT !.gaze_filter = create_gaze_filter(preset),
              !.screen_filter = create_gaze_filter(preset),
              !.filter_enabled = TRUE]

\* disable_filter()
disable_filter(t) ==
    [t EXCEPT !.filter_enabled = FALSE,
              !.gaze_filter = IF @ # NoFilter THEN GazeFilter_reset(@) ELSE @,
              !.screen_filter = IF @ # NoFilter THEN GazeFilter_reset(@) ELSE @]

\* np.clip(screen_point, [0, 0], [screen_width - 1, screen_height - 1])
ClipToSize(t, p) ==
    <<Min(Max(p[1], 0), t.screen_width), Min(Max(p[2], 0), t.screen_height)>>

clip(t, p) ==
    <<Min(Max(p[1], 0), t.screen_width - 1), Min(Max(p[2], 0), t.screen_height - 1)>>

\* the first face's box, cut to the frame
ClampBox(box) ==
    <<Max(0, box[1]), Max(0, box[2]), Min(FrameWidth, box[3]), Min(FrameHeight, box[4])>>

\* process_frame(frame): the tracker after the call, the pair it returns
\* and whether mapper.predict raised (a mapper that was never fit or loaded)
FiltersWhileDisabled(t, frame) ==
    LET t0 == [t EXCEPT !.current_pitch = None, !.current_yaw = None,
                        !.current_bbox = None]
        nothing == [self |-> t0, gaze |-> None, screen_point |-> None, raised |-> FALSE]
    IN
    IF frame.faces = <<>> THEN nothing
    ELSE
    LET box == ClampBox(frame.faces[1]) IN
    IF box[3] <= box[1] \/ box[4] <= box[2] THEN nothing
    ELSE
    LET filtering == t.gaze_filter # NoFilter
        fg == GazeFilter_filter(t.gaze_filter, frame.gaze[1], frame.gaze[2])
        g == IF filtering THEN fg.out ELSE frame.gaze
        t1 == [t0 EXCEPT !.current_pitch = Some(g[1]), !.current_yaw = Some(g[2]),
                         !.current_bbox = box,
                         !.gaze_filter = IF filtering THEN fg.self ELSE @]
    IN
    IF ~(t.is_calibrated /\ t.mapper # NoMapper)
    THEN [self |-> t1, gaze |-> g, screen_point |-> None, raised |-> FALSE]
    ELSE IF ~IsFitted(t.mapper)
    THEN [self |-> t1, gaze |-> None, screen_point |-> None, raised |-> TRUE]
    ELSE
    LET sp == predict(t.mapper, g)
        sfiltering == t.screen_filter # NoFilter
        fs == GazeFilter_filter(t.screen_filter, sp[1], sp[2])
        sp1 == IF sfiltering THEN fs.out ELSE sp
        t2 == [t1 EXCEPT !.screen_filter = IF sfiltering THEN fs.self ELSE @]
    IN  [self |-> t2, gaze |-> g, screen_point |-> clip(t, sp1), raised |-> FALSE]

process_frame(t, frame) ==
    LET t0 == [t EXCEPT !.current_pitch = None, !.current_yaw = None,
                        !.current_bbox = None]
        nothing == [self |-> t0, gaze |-> None, screen_point |-> None, raised |-> FALSE]
    IN
    IF frame.faces = <<>> THEN nothing
    ELSE
    LET box == ClampBox(frame.faces[1]) IN
    IF box[3] <= box[1] \/ box[4] <= box[2] THEN nothing
    ELSE
    LET filtering == t.filter_enabled /\ t.gaze_filter # NoFilter
        fg == GazeFilter_filter(t.gaze_filter, frame.gaze[1], frame.gaze[2])
        g == IF filtering THEN fg.out ELSE frame.gaze
        t1 == [t0 EXCEPT !.current_pitch = Some(g[1]), !.current_yaw = Some(g[2]),
                         !.current_bbox = box,
                         !.gaze_filter = IF filtering THEN fg.self ELSE @]
    IN
    IF ~(t.is_calibrated /\ t.mapper # NoMapper)
    THEN [self |-> t1, gaze |-> g, screen_point |-> None, raised |-> FALSE]
    ELSE IF ~IsFitted(t.mapper)
    THEN [self |-> t1, gaze |-> None, screen_point |-> None, raised |-> TRUE]
    ELSE
    LET sp == predict(t.mapper, g)
        sfiltering == t.filter_enabled /\ t.screen_filter # NoFilter
        fs == GazeFilter_filter(t.screen_filter, sp[1], sp[2])
        sp1 == IF sfiltering THEN fs.out ELSE sp
        t2 == [t1 EXCEPT !.screen_filter = IF sfiltering THEN fs.self ELSE @]
    IN  [self |-> t2, gaze |-> g, screen_point |-> clip(t, sp1), raised |-> FALSE]

\* get_current_gaze()
get_current_gaze(t) ==
    IF t.current_pitch # None THEN <<t.current_pitch[1], t.current_yaw[1]>> ELSE None

(***************************************************************************)
(* GazeCalibrator (calibration package): the target grid.  Targets lie on  *)
(* a regular side x side grid inset by margin percent of each screen       *)
(* dimension, row-major.  A position is kept exactly, as a numerator over  *)
(* TargetDen(side), and as the pixel it rounds to.                         *)
(***************************************************************************)
TargetDen(side) == 100 * (side - 1)

\* numerator of the k-th of side positions along a dimension of dim pixels
TargetNum(dim, margin, k, side) == dim * (margin * (side - 1) + k * (100 - 2 * margin))

Round(num, den) == (2 * num + den) \div (2 * den)

generate_targets(w, h, margin, side) ==
    [i \in 1..(side * side) |->
        LET row == (i - 1) \div side
            col == (i - 1) % side
        IN  [index |-> i - 1,
             xnum |-> TargetNum(w, margin, col, side),
             ynum |-> TargetNum(h, margin, row, side),
             x |-> Round(TargetNum(w, margin, col, side), TargetDen(side)),
             y |-> Round(TargetNum(h, margin, row, side), TargetDen(side))]]

GazeCalibrator(w, h, n, margin, spp, delay) ==
    LET side == CHOOSE k \in 1..n : k * k = n
    IN  [screen_width |-> w, screen_height |-> h, num_points |-> n, margin |-> margin,
         samples_per_point |-> spp, sample_delay |-> delay,
         targets |-> generate_targets(w, h, margin, side)]

\* the calibrator run_calibration constructs
CalibratorSwapsSize(t) ==
    GazeCalibrator(t.screen_height, t.screen_width, num_points, MarginPct,
                   SamplesPerPoint, SampleDelay)

CalibratorNoDelay(t) ==
    GazeCalibrator(t.screen_width, t.screen_height, num_points, MarginPct,
                   SamplesPerPoint, 0)

NewCalibrator(t) ==
    GazeCalibrator(t.screen_width, t.screen_height, num_points, MarginPct,
                   SamplesPerPoint, SampleDelay)

(***************************************************************************)
(* GazeCalibrator: the capture loop.  Twice the per-axis median of the     *)
(* samples is kept, which is exact in integers for an even sample count.   *)
(***************************************************************************)
Column(samples, axis) == [i \in 1..Len(samples) |-> samples[i][axis]]

\* the k-th smallest element of a non-empty sequence of numbers
Kth(s, k) ==
    CHOOSE v \in {s[i] : i \in 1..Len(s)} :
        /\ Cardinality({i \in 1..Len(s) : s[i] < v}) < k
        /\ Cardinality({i \in 1..Len(s) : s[i] <= v}) >= k

Median2(s) ==
    IF Len(s) % 2 = 1 THEN 2 * Kth(s, (Len(s) + 1) \div 2)
    ELSE Kth(s, Len(s) \div 2) + Kth(s, Len(s) \div 2 + 1)

Aggregate(samples) == <<Median2(Column(samples, 1)), Median2(Column(samples, 2))>>

IdleSession == [pc |-> "idle", calibrator |-> None, idx |-> 0, elapsed |-> 0,
                attempts |-> 0, samples |-> <<>>, dataset |-> <<>>, success |-> FALSE,
                outliers |-> 0]

\* run_calibration(gaze_callback) begins: the first target is displayed
StartSession(calibrator) ==
    [IdleSession EXCEPT !.pc = "capture", !.calibrator = calibrator]

\* one poll of the capture loop: dt ticks pass, the callback returned reading
Calibrator_poll(c, dt, reading) ==
    LET now == Min(c.elapsed + dt, SampleDelay) IN
    IF now < c.calibrator.sample_delay THEN [c EXCEPT !.elapsed = now]
    ELSE
    LET samples == IF reading # None THEN Append(c.samples, reading) ELSE c.samples
        attempts == c.attempts + 1
    IN
    IF Len(samples) >= c.calibrator.samples_per_point
    THEN LET target == c.calibrator.targets[c.idx + 1]
             estimate == [index |-> c.idx, gaze2 |-> Aggregate(samples),
                          target |-> <<target.x, target.y>>]
             dataset == Append(c.dataset, estimate)
         IN  IF c.idx + 1 = c.calibrator.num_points
             THEN [c EXCEPT !.pc = "returned", !.success = TRUE, !.elapsed = now,
                            !.attempts = attempts, !.samples = samples,
                            !.dataset = dataset]
             ELSE [c EXCEPT !.idx = c.idx + 1, !.elapsed = 0, !.attempts = 0,
                            !.samples = <<>>, !.dataset = dataset]
    ELSE IF attempts >= PollCeiling
    THEN [c EXCEPT !.pc = "returned", !.success = FALSE, !.elapsed = now,
                   !.attempts = attempts, !.samples = samples, !.dataset = <<>>]
    ELSE [c EXCEPT !.elapsed = now, !.attempts = attempts, !.samples = samples]

(***************************************************************************)
(* run_calibration of the tracker: the callback it hands to the            *)
(* calibrator and what it does with the calibrator's answer.               *)
(***************************************************************************)
\* gaze_callback(): the tracker after the call, the reading, whether it raised
StaleGazeCallback(t, frame) ==
    IF ~frame.ret THEN [self |-> t, reading |-> get_current_gaze(t), raised |-> FALSE]
    ELSE LET r == process_frame(t, frame)
         IN  [self |-> r.self, reading |-> get_current_gaze(r.self), raised |-> r.raised]

gaze_callback(t, frame) ==
    IF ~frame.ret THEN [self |-> t, reading |-> None, raised |-> FALSE]
    ELSE LET r == process_frame(t, frame)
         IN  [self |-> r.self, reading |-> get_current_gaze(r.self), raised |-> r.raised]

\* the tracker after calibrator.run_calibration returned success
AlwaysFits(t, success, fitted) ==
    [t EXCEPT !.mapper = fitted, !.is_calibrated = TRUE]

after_calibration(t, success, fitted) ==
    IF success THEN [t EXCEPT !.mapper = fitted, !.is_calibrated = TRUE] ELSE t

\* what run_calibration returns
ReturnsTrue(success) == TRUE

calibration_result(success) == success

(***************************************************************************)
(* Persistence.  PolynomialMapper.save writes the document {method,        *)
(* degree, coeffs_x, coeffs_y}, the coefficient arrays as lists;           *)
(* PolynomialMapper.load validates every field and rebuilds the arrays.    *)
(***************************************************************************)
NoFile == [exists |-> FALSE]

ToList(a) == [i \in 1..Cardinality(DOMAIN a) |-> a[i - 1]]

\* the number of basis terms of a polynomial of the given degree
NumTerms(degree) == ((degree + 1) * (degree + 2)) \div 2

PolynomialMapper_save(m) ==
    [exists |-> TRUE, method |-> m.method, degree |-> m.degree,
     coeffs_x |-> ToList(m.coeffs_x), coeffs_y |-> ToList(m.coeffs_y)]

WellFormed(doc) ==
    /\ {"method", "degree", "coeffs_x", "coeffs_y"} \subseteq DOMAIN doc
    /\ doc.method = "polynomial"
    /\ doc.degree = Degree
    /\ Len(doc.coeffs_x) = NumTerms(doc.degree)
    /\ Len(doc.coeffs_y) = NumTerms(doc.degree)

\* load(filepath) on mapper m: the mapper after the call and whether it raised
PolynomialMapper_load(m, doc) ==
    IF WellFormed(doc)
    THEN [self |-> [method |-> doc.method, degree |-> doc.degree,
                    coeffs_x |-> Arr(doc.coeffs_x), coeffs_y |-> Arr(doc.coeffs_y)],
          raised |-> FALSE]
    ELSE [self |-> m, raised |-> TRUE]

\* save_calibration(filepath): the file after the call and whether it raised
save_calibration(t, doc) ==
    IF t.mapper = NoMapper THEN [file |-> doc, raised |-> FALSE]
    ELSE IF ~IsFitted(t.mapper) THEN [file |-> doc, raised |-> TRUE]
    ELSE [file |-> PolynomialMapper_save(t.mapper), raised |-> FALSE]

\* load_calibration(filepath): the tracker after the call, what it returned
\* and whether it raised
LoadSkipsFile(t, doc) ==
    IF doc.exists
    THEN [self |-> [t EXCEPT !.mapper = PolynomialMapper, !.is_calibrated = TRUE],
          result |-> TRUE, raised |-> FALSE]
    ELSE [self |-> t, result |-> FALSE, raised |-> FALSE]

load_calibration(t, doc) ==
    IF doc.exists
    THEN LET t1 == [t EXCEPT !.mapper = PolynomialMapper]
             l == PolynomialMapper_load(t1.mapper, doc)
         IN  IF l.raised THEN [self |-> t1, result |-> FALSE, raised |-> TRUE]
             ELSE [self |-> [t1 EXCEPT !.mapper = l.self, !.is_calibrated = TRUE],
                   result |-> TRUE, raised |-> FALSE]
    ELSE [self |-> t, result |-> FALSE, raised |-> FALSE]

\* documents another program can leave at calib_path: one without coeffs_y,
\* one with a method tag this version does not know
ForeignDocs == {
    [exists |-> TRUE, method |-> "polynomial", degree |-> Degree,
     coeffs_x |-> <<960, 0, 160, 0, 0, 0>>],
    [exists |-> TRUE, method |-> "rbf", degree |-> Degree,
     coeffs_x |-> <<960, 0, 160, 0, 0, 0>>, coeffs_y |-> <<540, 90, 0, 0, 0, 0>>] }

(***************************************************************************)
(* The environment: frames and the gaze of the user.                       *)
(***************************************************************************)
FaceBox == <<200, 120, 440, 400>>
\* a detection right of the frame: cut to the frame it is empty
OffFrameBox == <<700, 120, 900, 400>>

ReadFailed == [ret |-> FALSE, faces |-> <<>>, gaze |-> <<0, 0>>]
NoFace == [ret |-> TRUE, faces |-> <<>>, gaze |-> <<0, 0>>]
EmptyCrop == [ret |-> TRUE, faces |-> <<OffFrameBox>>, gaze |-> <<0, 0>>]
Face(g) == [ret |-> TRUE, faces |-> <<FaceBox>>, gaze |-> g]

\* whether process_frame infers a gaze from the frame
Usable(frame) ==
    /\ frame.ret
    /\ frame.faces # <<>>
    /\ ClampBox(frame.faces[1])[3] > ClampBox(frame.faces[1])[1]
    /\ ClampBox(frame.faces[1])[4] > ClampBox(frame.faces[1])[2]

\* gaze angles of the live loop
RawGaze == {<<0, 0>>, <<2, -1>>}

\* the gaze of a user looking at target idx (it moves by one unit from one
\* target to the next), and an outlier reading
Nominal(idx) == <<idx \div GridSide, idx>>
Outlier(idx) == <<Nominal(idx)[1] + 5, Nominal(idx)[2] - 3>>

(***************************************************************************)
(* Bookkeeping of the operations.                                          *)
(***************************************************************************)
NoRet == [op |-> "none", gaze |-> None, screen_point |-> None, raised |-> FALSE,
          ok |-> FALSE, raw |-> None, first_gaze |-> FALSE, first_screen |-> FALSE,
          after_use |-> FALSE,
          fit_called |-> FALSE, n_estimates |-> 0, ceiling_hit |-> FALSE]

Snapshot(t) == [mapper |-> t.mapper, is_calibrated |-> t.is_calibrated]

NoRef == [idx |-> 0, started |-> FALSE, filter |-> NoFilter, samples |-> <<>>]

\* used: the gaze filter had taken samples before it was last constructed or reset
AllFresh == [gaze |-> TRUE, screen |-> TRUE, used |-> FALSE]

Refreshed == [gaze |-> TRUE, screen |-> TRUE, used |-> fresh.used \/ ~fresh.gaze]

\* whether process_frame(frame) calls gaze_filter.filter / screen_filter.filter
CallsGazeFilter(t, frame) ==
    Usable(frame) /\ t.filter_enabled /\ t.gaze_filter # NoFilter

CallsScreenFilter(t, frame) ==
    /\ Usable(frame) /\ t.is_calibrated /\ IsFitted(t.mapper)
    /\ t.filter_enabled /\ t.screen_filter # NoFilter

FreshAfter(t, frame) ==
    [gaze |-> fresh.gaze /\ ~CallsGazeFilter(t, frame),
     screen |-> fresh.screen /\ ~CallsScreenFilter(t, frame),
     used |-> fresh.used]

(***************************************************************************)
(* The operations of the live loop (main).                                 *)
(***************************************************************************)
Idle == cal.pc = "idle"

\* one turn of the loop whose cap.read succeeded: process_frame(frame)
ProcessFrame ==
    /\ Idle
    /\ \E frame \in {NoFace, EmptyCrop} \cup {Face(g) : g \in RawGaze} :
        LET r == process_frame(tracker, frame) IN
        /\ tracker' = r.self
        /\ ret' = [NoRet EXCEPT !.op = "process_frame", !.gaze = r.gaze,
                                !.screen_point = r.screen_point, !.raised = r.raised,
                                !.ok = ~r.raised,
                                !.raw = IF Usable(frame) THEN frame.gaze ELSE None,
                                !.first_gaze = fresh.gaze /\ CallsGazeFilter(tracker, frame),
                                !.first_screen = fresh.screen /\ CallsScreenFilter(tracker, frame),
                                !.after_use = fresh.used]
        /\ fresh' = FreshAfter(tracker, frame)
    /\ UNCHANGED <<calib_file, cal, before, ref, flt, grid, saved>>

\* 'f': toggle the filter
KeyF ==
    /\ Idle
    /\ tracker' = IF tracker.filter_enabled THEN disable_filter(tracker)
                  ELSE enable_filter(tracker, "balanced")
    /\ fresh' = Refreshed
    /\ ret' = [NoRet EXCEPT !.op = "filter", !.ok = TRUE]
    /\ UNCHANGED <<calib_file, cal, before, ref, flt, grid, saved>>

\* '1'..'4': enable_filter(preset)
KeyPreset ==
    /\ Idle
    /\ \E preset \in Presets : tracker' = enable_filter(tracker, preset)
    /\ fresh' = Refreshed
    /\ ret' = [NoRet EXCEPT !.op = "filter", !.ok = TRUE]
    /\ UNCHANGED <<calib_file, cal, before, ref, flt, grid, saved>>

\* 'r': reset the calibration
KeyR ==
    /\ Idle
    /\ tracker' = [tracker EXCEPT !.mapper = NoMapper, !.is_calibrated = FALSE]
    /\ ret' = [NoRet EXCEPT !.op = "reset", !.ok = TRUE]
    /\ UNCHANGED <<calib_file, cal, before, ref, fresh, flt, grid, saved>>

\* 's': save_calibration(calib_path)
KeyS ==
    /\ Idle
    /\ LET r == save_calibration(tracker, calib_file) IN
        /\ calib_file' = r.file
        /\ saved' = IF ~r.raised /\ tracker.mapper # NoMapper THEN tracker.mapper
                    ELSE saved
        /\ ret' = [NoRet EXCEPT !.op = "save", !.raised = r.raised, !.ok = ~r.raised]
    /\ UNCHANGED <<tracker, cal, before, ref, fresh, flt, grid>>

\* 'l': load_calibration(calib_path)
KeyL ==
    /\ Idle
    /\ LET r == load_calibration(tracker, calib_file) IN
        /\ tracker' = r.self
        /\ ret' = [NoRet EXCEPT !.op = "load", !.raised = r.raised, !.ok = r.result]
    /\ before' = Snapshot(tracker)
    /\ UNCHANGED <<calib_file, cal, ref, fresh, flt, grid, saved>>

\* another program rewrites or removes the file at calib_path
ForeignWrite ==
    /\ Idle
    /\ \E doc \in ForeignDocs \cup {NoFile} : calib_file' = doc
    /\ calib_file' # calib_file
    /\ saved' = NoMapper
    /\ UNCHANGED <<tracker, cal, ret, before, ref, fresh, flt, grid>>

(***************************************************************************)
(* 'c': run_calibration(cap), one step per poll of the capture loop.       *)
(***************************************************************************)
\* run_calibration is entered: the calibrator is constructed and its
\* run_calibration shows the first target
KeyC ==
    /\ Idle
    /\ cal' = StartSession(NewCalibrator(tracker))
    /\ before' = Snapshot(tracker)
    /\ ref' = NoRef
    /\ ret' = NoRet
    /\ UNCHANGED <<tracker, calib_file, fresh, flt, grid, saved>>

\* the frames the camera can deliver while target idx is shown
CalFrames(c) ==
    {ReadFailed, NoFace, EmptyCrop, Face(Nominal(c.idx))}
        \cup (IF c.outliers < MaxOutliers THEN {Face(Outlier(c.idx))} ELSE {})

\* the capture of target idx with the absent readings removed: it starts
\* with the first poll after the settle time, from the gaze filter of that
\* moment, and takes the usable frames only
RefAfter(c, dt, frame, t) ==
    IF Min(c.elapsed + dt, SampleDelay) < SampleDelay THEN ref
    ELSE
    LET base == IF ref.idx = c.idx /\ ref.started THEN ref
                ELSE [idx |-> c.idx, started |-> TRUE, filter |-> t.gaze_filter,
                      samples |-> <<>>]
        f == GazeFilter_filter(base.filter, frame.gaze[1], frame.gaze[2])
    IN  IF ~Usable(frame) THEN base
        ELSE IF t.filter_enabled /\ base.filter # NoFilter
        THEN [base EXCEPT !.filter = f.self, !.samples = Append(@, f.out)]
        ELSE [base EXCEPT !.samples = Append(@, frame.gaze)]

\* one poll: gaze_callback() runs and the calibrator takes its answer; an
\* exception of the callback ends run_calibration
CalPoll ==
    /\ cal.pc = "capture"
    /\ \E dt \in 1..MaxPollTicks, frame \in CalFrames(cal) :
        LET cb == gaze_callback(tracker, frame)
            used == IF Usable(frame) /\ frame.gaze # Nominal(cal.idx) THEN 1 ELSE 0
        IN
        /\ tracker' = cb.self
        /\ fresh' = IF frame.ret THEN FreshAfter(tracker, frame) ELSE fresh
        /\ IF cb.raised
           THEN /\ cal' = IdleSession
                /\ ref' = NoRef
                /\ ret' = [NoRet EXCEPT !.op = "run_calibration", !.raised = TRUE]
           ELSE /\ cal' = [Calibrator_poll(cal, dt, cb.reading) EXCEPT
                              !.outliers = cal.outliers + used]
                /\ ref' = RefAfter(cal, dt, frame, tracker)
                /\ ret' = ret
    /\ UNCHANGED <<calib_file, before, flt, grid, saved>>

\* calibrator.run_calibration returned: fit the mapper on success, return
FinishCalibration ==
    /\ cal.pc = "returned"
    /\ \E c \in FitCoeffs :
        /\ tracker' = after_calibration(tracker, cal.success, Fitted(c))
        /\ ret' = [NoRet EXCEPT !.op = "run_calibration",
                                !.ok = calibration_result(cal.success),
                                !.fit_called = cal.success \/ tracker' # tracker,
                                !.n_estimates = Len(cal.dataset),
                                !.ceiling_hit = (cal.attempts >= PollCeiling
                                    /\ Len(cal.samples) < SamplesPerPoint)]
    /\ cal' = IdleSession
    /\ ref' = NoRef
    /\ UNCHANGED <<calib_file, before, fresh, flt, grid, saved>>

(***************************************************************************)
(* Specifications.                                                         *)
(***************************************************************************)
\* the tracker main constructs, with the filter of --filter
StartTrackers ==
    {enable_filter(NewTracker, preset) : preset \in Presets}
        \cup {disable_filter(NewTracker)}

NoGrid == [stage |-> "none", w |-> 0, h |-> 0, margin |-> 0, targets |-> <<>>]

NoFlt == [filter |-> NoFilter, shadow |-> NoFilter, out |-> None, shadow_out |-> None,
          prev |-> None, last |-> "none", fed_nan |-> FALSE]

InitCommon ==
    /\ calib_file = NoFile
    /\ cal = IdleSession
    /\ ret = NoRet
    /\ ref = NoRef
    /\ fresh = AllFresh
    /\ flt = NoFlt
    /\ grid = NoGrid
    /\ saved = NoMapper

Init ==
    /\ tracker \in StartTrackers
    /\ before = Snapshot(NewTracker)
    /\ InitCommon

Next ==
    \/ ProcessFrame
    \/ KeyF
    \/ KeyPreset
    \/ KeyR
    \/ KeyS
    \/ KeyL
    \/ ForeignWrite
    \/ KeyC
    \/ CalPoll
    \/ FinishCalibration

Spec == Init /\ [][Next]_vars

\* a tracker calibrated by an earlier fit
Calibrated(t, c) == [t EXCEPT !.mapper = Fitted(c), !.is_calibrated = TRUE]

\* One run_calibration call, from the trackers a run can start from: not yet
\* calibrated with the filter on (balanced) or off, or calibrated by an
\* earlier fit with the filter off.
CalTrackers ==
    {enable_filter(NewTracker, "balanced"), disable_filter(NewTracker)}
        \cup {Calibrated(disable_filter(NewTracker), c) : c \in FitCoeffs}

InitCal ==
    /\ tracker \in CalTrackers
    /\ before = Snapshot(tracker)
    /\ InitCommon

FirstRun == ret.op = "none" /\ KeyC

NextCal ==
    \/ FirstRun
    \/ CalPoll
    \/ FinishCalibration

SpecCal == InitCal /\ [][NextCal]_vars

\* a poll returns and run_calibration goes on: the loop is never abandoned
LiveCal == SpecCal /\ WF_vars(CalPoll) /\ WF_vars(FinishCalibration)

\* The live loop: frames and filter keys, on a tracker that is not calibrated
\* or was calibrated by an earlier fit.
InitTrack ==
    /\ tracker \in StartTrackers \cup {Calibrated(t, c) : t \in StartTrackers, c \in FitCoeffs}
    /\ before = Snapshot(tracker)
    /\ InitCommon

NextTrack ==
    \/ ProcessFrame
    \/ KeyF
    \/ KeyPreset
    \/ KeyR

SpecTrack == InitTrack /\ [][NextTrack]_vars

\* Persistence: save, load and reset on a tracker that is not calibrated or
\* was calibrated by an earlier fit, with the filter off, and a file that
\* other programs may rewrite.
InitPersist ==
    /\ tracker \in {disable_filter(NewTracker)}
                    \cup {Calibrated(disable_filter(NewTracker), c) : c \in FitCoeffs}
    /\ before = Snapshot(tracker)
    /\ InitCommon

NextPersist ==
    \/ KeyS
    \/ KeyL
    \/ KeyR
    \/ ForeignWrite
    \/ ProcessFrame

SpecPersist == InitPersist /\ [][NextPersist]_vars

(***************************************************************************)
(* A GazeFilter on its own.  flt.filter takes every sample; flt.shadow is  *)
(* a second filter of the same profile that is never shown the non-finite  *)
(* ones.                                                                   *)
(***************************************************************************)
FilterVals == {0, 8}

\* filter(x, y) with a finite sample
FilterSample ==
    /\ \E x \in FilterVals, y \in FilterVals :
        LET r == GazeFilter_filter(flt.filter, x, y)
            q == GazeFilter_filter(flt.shadow, x, y)
        IN  flt' = [filter |-> r.self, shadow |-> q.self, out |-> r.out,
                    shadow_out |-> q.out, prev |-> flt.filter.value,
                    last |-> "finite", fed_nan |-> flt.fed_nan]
    /\ UNCHANGED <<tracker, calib_file, cal, ret, before, ref, fresh, grid, saved>>

\* filter(x, y) with a sample that has a NaN coordinate
FilterNonFinite ==
    /\ \E s \in {<<NaN, NaN>>} \cup {<<NaN, v>> : v \in FilterVals}
                    \cup {<<v, NaN>> : v \in FilterVals} :
        LET r == GazeFilter_filter(flt.filter, s[1], s[2])
        IN  flt' = [flt EXCEPT !.filter = r.self, !.out = r.out,
                               !.prev = flt.filter.value, !.last = "nonfinite",
                               !.fed_nan = TRUE]
    /\ UNCHANGED <<tracker, calib_file, cal, ret, before, ref, fresh, grid, saved>>

\* reset()
FilterReset ==
    /\ flt.last # "reset"
    /\ flt' = [filter |-> GazeFilter_reset(flt.filter),
               shadow |-> GazeFilter_reset(flt.shadow),
               out |-> None, shadow_out |-> None, prev |-> flt.filter.value,
               last |-> "reset", fed_nan |-> FALSE]
    /\ UNCHANGED <<tracker, calib_file, cal, ret, before, ref, fresh, grid, saved>>

InitFilter ==
    /\ tracker = NewTracker
    /\ before = Snapshot(NewTracker)
    /\ calib_file = NoFile
    /\ cal = IdleSession
    /\ ret = NoRet
    /\ ref = NoRef
    /\ fresh = AllFresh
    /\ grid = NoGrid
    /\ saved = NoMapper
    /\ \E preset \in Presets :
        flt = [NoFlt EXCEPT !.filter = create_gaze_filter(preset),
                            !.shadow = create_gaze_filter(preset)]

NextFilter ==
    \/ FilterSample
    \/ FilterNonFinite
    \/ FilterReset

SpecFilter == InitFilter /\ [][NextFilter]_vars

(***************************************************************************)
(* The target grid on its own: a calibrator constructed for a screen and a *)
(* margin, and the calibrator run_calibration constructs for the tracker   *)
(* of that screen.                                                         *)
(***************************************************************************)
GridWidths == {1, 2, 101, 640, 1920}
GridHeights == {1, 3, 480, 1080}
GridMargins == {0, 15, 33, 49}

\* GazeCalibrator(screen_width, screen_height, num_points, margin, ...)
GridConstruct ==
    /\ grid.stage = "config"
    /\ grid' = [grid EXCEPT !.stage = "constructed",
                   !.targets = GazeCalibrator(grid.w, grid.h, num_points, grid.margin,
                                              SamplesPerPoint, SampleDelay).targets]
    /\ UNCHANGED <<tracker, calib_file, cal, ret, before, ref, fresh, flt, saved>>

\* the calibrator of tracker.run_calibration
GridOfTracker ==
    /\ grid.stage = "config"
    /\ grid' = [grid EXCEPT !.stage = "tracker", !.margin = NewCalibrator(tracker).margin,
                            !.targets = NewCalibrator(tracker).targets]
    /\ UNCHANGED <<tracker, calib_file, cal, ret, before, ref, fresh, flt, saved>>

InitGrid ==
    /\ \E w \in GridWidths, h \in GridHeights, margin \in GridMargins :
        /\ grid = [stage |-> "config", w |-> w, h |-> h, margin |-> margin,
                   targets |-> <<>>]
        /\ tracker = [NewTracker EXCEPT !.screen_width = w, !.screen_height = h]
    /\ before = Snapshot(NewTracker)
    /\ calib_file = NoFile
    /\ cal = IdleSession
    /\ ret = NoRet
    /\ ref = NoRef
    /\ fresh = AllFresh
    /\ flt = NoFlt
    /\ saved = NoMapper

NextGrid ==
    \/ GridConstruct
    \/ GridOfTracker

SpecGrid == InitGrid /\ [][NextGrid]_vars

(***************************************************************************)
(* Claims.                                                                 *)
(***************************************************************************)
InOrder(dataset) == \A i \in 1..Len(dataset) : dataset[i].index = i - 1

\* C1: run_calibration reports success only with an estimate for every one
\* of the num_points targets; create_mapper is called, and mapper and
\* is_calibrated are set, only after the calibrator returned success; while
\* the run is under way and after a failed run, mapper and is_calibrated are
\* what they were before the run.
C1_FitOnlyFromCompleteDataset ==
    /\ cal.pc \in {"capture", "returned"} =>
        /\ tracker.mapper = before.mapper
        /\ tracker.is_calibrated = before.is_calibrated
    /\ cal.pc = "returned" /\ cal.success =>
        Len(cal.dataset) = num_points /\ InOrder(cal.dataset)
    /\ ret.op = "run_calibration" /\ ~ret.raised =>
        /\ ret.ok => ret.n_estimates = num_points
        /\ ret.fit_called => ret.ok /\ ret.n_estimates = num_points
        /\ ret.ok => tracker.is_calibrated /\ IsFitted(tracker.mapper)
        /\ ~ret.ok => /\ tracker.mapper = before.mapper
                      /\ tracker.is_calibrated = before.is_calibrated

\* a run failed on a tracker that an earlier fit had calibrated
C1_Witness ==
    /\ ret.op = "run_calibration"
    /\ ~ret.ok
    /\ before.is_calibrated
    /\ IsFitted(tracker.mapper)

\* C2: after a load_calibration that failed (it raised on a file with a
\* missing field or an unknown method tag, or found no file), the tracker
\* holds the fitted mapper it held before the call, which predicts as before.
C2_FailedLoadKeepsMapper ==
    ret.op = "load" /\ ~ret.ok /\ IsFitted(before.mapper) =>
        /\ tracker.mapper = before.mapper
        /\ \A g \in RawGaze : predict(tracker.mapper, g) = predict(before.mapper, g)

OnScreen(t, p) ==
    /\ 0 <= p[1] /\ p[1] <= t.screen_width - 1
    /\ 0 <= p[2] /\ p[2] <= t.screen_height - 1

\* C3: every screen point process_frame returns, with the filter enabled or
\* disabled and whatever the mapper predicts, lies in
\* [0, screen_width - 1] x [0, screen_height - 1].
C3_ScreenPointClamped ==
    ret.op = "process_frame" /\ ret.screen_point # None =>
        OnScreen(tracker, ret.screen_point)

\* the mapper predicted a point far outside the screen, the filter was on
C3_Witness ==
    /\ ret.op = "process_frame"
    /\ ret.screen_point # None
    /\ tracker.filter_enabled
    /\ predict(tracker.mapper, ret.gaze)[1] > 2 * tracker.screen_width
    /\ predict(tracker.mapper, ret.gaze)[2] < 0 - tracker.screen_height \div 2
    /\ ret.screen_point = <<tracker.screen_width - 1, 0>>

\* C6: the first process_frame after the filters were constructed
\* (enable_filter) or reset (disable_filter), whatever the profile and
\* whatever the filters had taken before, returns the gaze of the frame
\* unchanged, and the screen point the mapper predicts for it.
C6_FirstSampleUnchanged ==
    ret.op = "process_frame" =>
        /\ ret.first_gaze => ret.gaze = ret.raw
        /\ ret.first_screen =>
             ret.screen_point = clip(tracker, predict(tracker.mapper, ret.gaze))

\* a first frame after the filters, which had taken samples, were constructed
\* again
C6_Witness ==
    /\ ret.op = "process_frame"
    /\ ret.first_gaze
    /\ ret.first_screen
    /\ ret.after_use
    /\ ret.raw = <<2, -1>>
    /\ ret.gaze = <<2, -1>>

GazeAngles == {<<p, y>> : p \in -2..2, y \in -2..2}

\* C9: a load_calibration of the file that save_calibration wrote for a
\* fitted mapper gives the tracker a mapper with the same method tag, degree
\* and coefficient arrays, which predicts the same point for every gaze angle.
C9_SaveLoadRoundTrip ==
    ret.op = "load" /\ ret.ok /\ IsFitted(saved) =>
        /\ tracker.mapper.method = saved.method
        /\ tracker.mapper.degree = saved.degree
        /\ tracker.mapper.coeffs_x = saved.coeffs_x
        /\ tracker.mapper.coeffs_y = saved.coeffs_y
        /\ \A g \in GazeAngles : predict(tracker.mapper, g) = predict(saved, g)

\* a reset tracker loaded the file an earlier save had written
C9_Witness ==
    /\ ret.op = "load"
    /\ ret.ok
    /\ IsFitted(saved)
    /\ before.mapper = NoMapper
    /\ IsFitted(tracker.mapper)

\* C4: polls without a reading (the frame read failed, no face was found)
\* are skipped: the samples collected for the target being captured are
\* those of its polls with the absent readings removed, so are their count
\* and the estimate aggregated from them when the target is complete.
C4_AbsentReadingsSkipped ==
    /\ cal.pc \in {"capture", "returned"} /\ ref.started /\ ref.idx = cal.idx =>
        cal.samples = ref.samples
    /\ cal.pc = "capture" /\ ref.started /\ ref.idx = cal.idx - 1 =>
        /\ Len(ref.samples) = SamplesPerPoint
        /\ cal.dataset[cal.idx].gaze2 = Aggregate(ref.samples)
    /\ cal.pc = "returned" /\ cal.success =>
        /\ ref.started /\ ref.idx = num_points - 1
        /\ Len(ref.samples) = SamplesPerPoint
        /\ cal.dataset[num_points].gaze2 = Aggregate(ref.samples)

\* the last target was completed by polls of which some had no reading, and
\* an outlier reading went through the gaze filter
C4_Witness ==
    /\ cal.pc = "returned"
    /\ cal.success
    /\ cal.attempts > SamplesPerPoint
    /\ tracker.filter_enabled
    /\ cal.samples[1] # cal.samples[2]

\* C5: the capture loop of a target ends: polling goes on only while fewer
\* than samples_per_point samples are collected and fewer than the ceiling
\* of polls are made, whatever the gaze source returns; a target that
\* reaches the ceiling short of samples fails the session, and
\* run_calibration then returns failure.
C5_CaptureTerminates ==
    /\ [](cal.attempts <= PollCeiling)
    /\ [](cal.pc = "capture" =>
            Len(cal.samples) < SamplesPerPoint /\ cal.attempts < PollCeiling)
    /\ [](cal.pc = "returned" /\ Len(cal.samples) < SamplesPerPoint => ~cal.success)
    /\ [](ret.op = "run_calibration" /\ ret.ceiling_hit => ~ret.ok)
    /\ (cal.pc = "capture" ~> cal.pc = "returned")
    /\ (cal.pc = "returned" ~> ret.op = "run_calibration")

\* run_calibration returned failure after a target reached the ceiling
C5_Witness ==
    /\ ret.op = "run_calibration"
    /\ ret.ceiling_hit
    /\ ~ret.ok

\* C10: no sample is in a target's sample set before sample_delay has
\* elapsed since the target was displayed; the targets are captured in index
\* order, the capture of a target beginning (no time elapsed, no sample, no
\* poll counted) only when the estimate of the one before it is complete.
C10_SettleThenCaptureInOrder ==
    /\ [](Len(cal.samples) > 0 => cal.elapsed >= SampleDelay)
    /\ [](cal.pc = "capture" => Len(cal.dataset) = cal.idx /\ InOrder(cal.dataset))
    /\ [][/\ Len(cal'.samples) > Len(cal.samples) => cal'.elapsed >= SampleDelay
          /\ cal'.idx # cal.idx =>
                \/ cal'.pc = "idle"
                \/ /\ cal'.idx = cal.idx + 1
                   /\ Len(cal'.dataset) = cal'.idx
                   /\ cal'.dataset[cal'.idx].index = cal.idx
                   /\ cal'.elapsed = 0 /\ cal'.samples = <<>> /\ cal'.attempts = 0]_vars

\* a sample of the second target was accepted, after its settle time
C10_Witness ==
    /\ cal.pc = "capture"
    /\ cal.idx = 1
    /\ Len(cal.samples) = 1
    /\ cal.elapsed = SampleDelay

\* C7: a sample with a non-finite coordinate fed to filter() leaves the
\* filter state as it was and returns the last valid smoothed value; the
\* state and the outputs of every later call are those of a filter that was
\* fed the finite samples only.
C7_NonFiniteIgnored ==
    /\ flt.filter = flt.shadow
    /\ flt.last = "nonfinite" =>
        /\ flt.filter.value = flt.prev
        /\ flt.prev # None => flt.out = flt.prev
    /\ flt.last = "finite" => flt.out = flt.shadow_out

\* a finite sample moved the output of a filter that had been fed a
\* non-finite sample after its first valid one
C7_Witness ==
    /\ flt.last = "finite"
    /\ flt.fed_nan
    /\ flt.prev # None
    /\ flt.out # flt.prev

GridExact(t) == <<t.xnum, t.ynum>>

\* C8: for every width, height and margin below one half, the nine target
\* positions lie within [margin*W, (1-margin)*W] x [margin*H, (1-margin)*H],
\* are pairwise distinct and are listed row by row from the top-left one to
\* the bottom-right one; the calibrator run_calibration constructs for a
\* 1920x1080 screen has x in 288, 960, 1632 and y in 162, 540, 918.
C8_GridGeometry ==
    grid.stage \in {"constructed", "tracker"} =>
        LET ts == grid.targets
            den == TargetDen(GridSide)
        IN  /\ Len(ts) = num_points
            /\ \A i \in 1..Len(ts) :
                /\ ts[i].index = i - 1
                /\ grid.margin * grid.w * den <= 100 * ts[i].xnum
                /\ 100 * ts[i].xnum <= (100 - grid.margin) * grid.w * den
                /\ grid.margin * grid.h * den <= 100 * ts[i].ynum
                /\ 100 * ts[i].ynum <= (100 - grid.margin) * grid.h * den
            /\ \A i, j \in 1..Len(ts) : i # j => GridExact(ts[i]) # GridExact(ts[j])
            /\ \A i, j \in 1..Len(ts) :
                i < j => \/ ts[i].ynum < ts[j].ynum
                         \/ ts[i].ynum = ts[j].ynum /\ ts[i].xnum < ts[j].xnum
            /\ \A i \in 1..Len(ts) :
                /\ ts[i].ynum = ts[((i - 1) \div GridSide) * GridSide + 1].ynum
                /\ ts[i].xnum = ts[((i - 1) % GridSide) + 1].xnum
            /\ grid.stage = "tracker" /\ grid.w = 1920 /\ grid.h = 1080 =>
                /\ [i \in 1..Len(ts) |-> ts[i].x] =
                        <<288, 960, 1632, 288, 960, 1632, 288, 960, 1632>>
                /\ [i \in 1..Len(ts) |-> ts[i].y] =
                        <<162, 162, 162, 540, 540, 540, 918, 918, 918>>

\* the grid of the calibrator run_calibration constructs for 1920x1080
C8_Witness ==
    /\ grid.stage = "tracker"
    /\ grid.w = 1920
    /\ grid.h = 1080
    /\ grid.margin = MarginPct
    /\ grid.targets[num_points].x = 1632
    /\ grid.targets[num_points].y = 918

(***************************************************************************)
(* A filter fed one constant pair again and again: a filter of any profile *)
(* that is fresh or holds some smoothed pair, and the constant it is fed.  *)
(***************************************************************************)
ConvPoints == {<<0, 0>>, <<800, 0 - 400>>, <<0 - 30, 6>>}

ConvStarts == {None} \cup ConvPoints \cup {<<3, 797>>}

\* filter(x, y) with the constant
FeedConstant ==
    /\ flt.last \in {"start", "feed"}
    /\ LET r == GazeFilter_filter(flt.filter, flt.target[1], flt.target[2])
       IN  flt' = [flt EXCEPT !.filter = r.self, !.out = r.out, !.last = "feed",
                       !.steps = IF r.self = flt.filter THEN @ ELSE @ + 1,
                       !.settled = (r.self = flt.filter)]
    /\ UNCHANGED <<tracker, calib_file, cal, ret, before, ref, fresh, grid, saved>>

InitConverge ==
    /\ tracker = NewTracker
    /\ before = Snapshot(NewTracker)
    /\ calib_file = NoFile
    /\ cal = IdleSession
    /\ ret = NoRet
    /\ ref = NoRef
    /\ fresh = AllFresh
    /\ grid = NoGrid
    /\ saved = NoMapper
    /\ \E preset \in Presets, start \in ConvStarts, target \in ConvPoints :
        flt = [filter |-> [create_gaze_filter(preset) EXCEPT !.value = start],
               start |-> start, target |-> target, out |-> None,
               last |-> "start", steps |-> 0, settled |-> FALSE]

NextConverge == FeedConstant

SpecConverge == InitConverge /\ [][NextConverge]_vars

LiveConverge == SpecConverge /\ WF_vars(FeedConstant)

\* the first step of a coordinate: from the smoothed value held at the start
\* (the constant itself for a fresh filter) to the constant
InitialStep(i) ==
    IF flt.start = None THEN 0 ELSE Abs(flt.target[i] - flt.start[i])

\* the output is within 0.5% of the initial step of the constant
WithinTolerance ==
    /\ flt.out # None
    /\ \A i \in 1..2 : 1000 * Abs(flt.out[i] - flt.target[i]) <= 5 * InitialStep(i)

\* C11: a filter of any of the four profiles, fresh or holding any smoothed
\* pair, that is fed one constant pair again and again eventually returns
\* only outputs within 0.5% of the initial step of that constant; the value
\* it settles on is the constant for every profile, and no output is
\* farther from the constant than the one before it.
C11_ConstantInputConverges ==
    /\ <>[]WithinTolerance
    /\ [](flt.settled => flt.out = flt.target /\ flt.filter.value = flt.target)
    /\ [][flt.out # None =>
            \A i \in 1..2 :
                Abs(flt'.out[i] - flt.target[i]) <= Abs(flt.out[i] - flt.target[i])]_vars

\* the slowest profile reached the constant from 800 away, in more feeds
\* than the fastest profile can take
C11_Witness ==
    /\ flt.last = "feed"
    /\ flt.filter.preset = "smooth"
    /\ flt.start = <<0, 0>>
    /\ flt.target = <<800, 0 - 400>>
    /\ flt.steps > 20
    /\ flt.out = flt.target

\* C12: after any sequence of calibrations, saves, loads and resets, failed
\* ones included, is_calibrated is True only while mapper is a mapper that
\* was fit or loaded; process_frame never has predict raise on a mapper
\* that was never fit or loaded; a reset leaves no mapper, and process_frame
\* returns a screen point only from a calibrated tracker with such a mapper.
C12_CalibratedOnlyWithFittedMapper ==
    /\ tracker.is_calibrated => IsFitted(tracker.mapper)
    /\ ret.op = "process_frame" => ~ret.raised
    /\ ret.op = "reset" => ~tracker.is_calibrated /\ tracker.mapper = NoMapper
    /\ ret.op = "process_frame" /\ ret.screen_point # None =>
        tracker.is_calibrated /\ IsFitted(tracker.mapper)

\* C13: a process_frame on a frame without a usable face (no detection, or
\* a box that is empty once cut to the frame) returns (None, None), leaves
\* current_pitch, current_yaw and current_bbox None, so that
\* get_current_gaze returns None, and leaves both filters as they were; a
\* process_frame changes the screen filter only when the tracker is
\* calibrated, and changes no filter while filter_enabled is False.
C13_ProcessFrameFrame ==
    [][ret'.op = "process_frame" =>
        /\ ret'.raw = None =>
            /\ ret'.gaze = None /\ ret'.screen_point = None
            /\ tracker'.current_pitch = None
            /\ tracker'.current_yaw = None
            /\ tracker'.current_bbox = None
            /\ get_current_gaze(tracker') = None
            /\ tracker'.gaze_filter = tracker.gaze_filter
            /\ tracker'.screen_filter = tracker.screen_filter
        /\ tracker'.screen_filter # tracker.screen_filter => tracker.is_calibrated
        /\ ~tracker.filter_enabled =>
            /\ tracker'.gaze_filter = tracker.gaze_filter
            /\ tracker'.screen_filter = tracker.screen_filter
        /\ tracker'.filter_enabled = tracker.filter_enabled
        /\ tracker'.is_calibrated = tracker.is_calibrated
        /\ tracker'.mapper = tracker.mapper]_vars

\* a frame without a face came after frames that set the current fields and
\* advanced both filters of a calibrated tracker
C13_Witness ==
    /\ ret.op = "process_frame"
    /\ ret.raw = None
    /\ tracker.is_calibrated
    /\ tracker.filter_enabled
    /\ tracker.gaze_filter.value # None
    /\ tracker.screen_filter.value # None
    /\ tracker.current_pitch = None

====
